---- MODULE Spec2Model ----
(***************************************************************************)
(* Model of the interactive Risk map (src/main.rs): the territory hit test *)
(* Territory::is_point_inside, evaluated in f32 arithmetic as the code     *)
(* evaluates it, and the selection state machine of GameState driven by    *)
(* the frame loop of main.                                                 *)
(***************************************************************************)
EXTENDS Integers, Sequences, FiniteSets, TLC

VARIABLES territories, selected_territory, mouse, screen, pc

vars == <<territories, selected_territory, mouse, screen, pc>>

(***************************************************************************)
(* Bounds of the model.                                                    *)
(***************************************************************************)
MaxTerritories == 3
\* Hit-test inputs: polygons of 3..MaxVertices vertices whose coordinates
\* are 0, MaxCoord \div 2 + 1 or MaxCoord.
MaxVertices == 3
MaxCoord == 13
\* Rectangles with corners in 0..MaxRect, clicked in -1..MaxRect+1.
MaxRect == 2
\* Polygons of the centroid check: vertices in (0..GridW) \X (0..GridH).
GridW == 2
GridH == 4
\* Owners of the colour check: 0..MaxOwner.
MaxOwner == 3

(***************************************************************************)
(* f32 arithmetic.  A finite f32 value is the pair <<m, k>> standing for   *)
(* m / 2^k, with |m| <= 2^MantBits.  Every operation computes the exact    *)
(* result and rounds it once to MantBits significant bits, ties to even,   *)
(* as IEEE 754 single precision does.  Magnitudes stay far below 2^24 and  *)
(* far above the subnormal range for the coordinates used here, so the    *)
(* exponent range of f32 plays no part.                                    *)
(***************************************************************************)
MantBits == 24

Abs(n) == IF n < 0 THEN -n ELSE n

RECURSIVE BitLen(_)
BitLen(n) == IF n = 0 THEN 0 ELSE 1 + BitLen(n \div 2)

\* n / 2^sh rounded to the nearest integer, ties to the even one (n >= 0).
RoundHalfEven(n, sh) ==
    IF sh = 0 THEN n
    ELSE LET q == n \div (2 ^ sh)
             r == n % (2 ^ sh)
             half == 2 ^ (sh - 1)
         IN  IF r > half \/ (r = half /\ q % 2 = 1) THEN q + 1 ELSE q

\* The f32 nearest to m / 2^k, m >= 0.
f32_round(m, k) ==
    LET sh == IF BitLen(m) > MantBits THEN BitLen(m) - MantBits ELSE 0
    IN  <<RoundHalfEven(m, sh), k - sh>>

\* The f32 nearest to i + r / 2^k, where i >= 0 and 0 <= r < 2^k.
f32_round_parts(i, r, k) ==
    IF i = 0 THEN f32_round(r, k)
    ELSE LET keep == MantBits - BitLen(i)
         IN  IF k <= keep THEN <<i * (2 ^ k) + r, k>>
             ELSE <<i * (2 ^ keep) + RoundHalfEven(r, k - keep), keep>>

f32_neg(a) == <<-a[1], a[2]>>

\* Integer part (floor) and fraction numerator over 2^k of the value a.
f32_floor(a) == a[1] \div (2 ^ a[2])
f32_frac(a, k) == (a[1] % (2 ^ a[2])) * (2 ^ (k - a[2]))

f32_add(a, b) ==
    LET k == IF a[2] > b[2] THEN a[2] ELSE b[2]
        f == f32_frac(a, k) + f32_frac(b, k)
        i == f32_floor(a) + f32_floor(b) + f \div (2 ^ k)
        r == f % (2 ^ k)
    IN  IF i >= 0 THEN f32_round_parts(i, r, k)
        ELSE IF r = 0 THEN f32_neg(f32_round_parts(-i, 0, k))
        ELSE f32_neg(f32_round_parts(-i - 1, (2 ^ k) - r, k))

f32_sub(a, b) == f32_add(a, f32_neg(b))

f32_mul(a, b) ==
    LET p == a[1] * b[1]
        m == f32_round(Abs(p), a[2] + b[2])
    IN  IF p < 0 THEN f32_neg(m) ELSE m

\* Least k with n * 2^k >= 2^(MantBits-1) * d, for n, d > 0.
RECURSIVE DivScale(_, _, _)
DivScale(n, d, k) ==
    IF n >= (2 ^ (MantBits - 1)) * d THEN k ELSE DivScale(2 * n, d, k + 1)

\* a / b for b # 0 (the code divides only when the two y differ).
f32_div(a, b) ==
    LET n == Abs(a[1]) * (2 ^ b[2])
        d == Abs(b[1]) * (2 ^ a[2])
        k == DivScale(n, d, 0)
        q == (n * (2 ^ k)) \div d
        r == (n * (2 ^ k)) % d
        m == IF 2 * r > d \/ (2 * r = d /\ q % 2 = 1) THEN q + 1 ELSE q
    IN  IF n = 0 THEN <<0, 0>>
        ELSE IF (a[1] < 0) # (b[1] < 0) THEN <<-m, k>> ELSE <<m, k>>

f32_lt(a, b) ==
    LET k == IF a[2] > b[2] THEN a[2] ELSE b[2]
    IN  \/ f32_floor(a) < f32_floor(b)
        \/ /\ f32_floor(a) = f32_floor(b)
           /\ f32_frac(a, k) < f32_frac(b, k)

f32_gt(a, b) == f32_lt(b, a)

\* The f32 of an integer literal (exact below 2^24).
F32(n) == <<n, 0>>

vec2(x, y) == [x |-> x, y |-> y]

(***************************************************************************)
(* Territory::is_point_inside: even-odd ray casting over the edges         *)
(* (vertices[i], vertices[j]), j the previous index, starting at the last. *)
(***************************************************************************)
\* The condition of the if inside the loop, for one edge.
edge_crosses(vi, vj, point) ==
    /\ f32_gt(vi.y, point.y) # f32_gt(vj.y, point.y)
    /\ f32_lt(point.x,
              f32_add(f32_div(f32_mul(f32_sub(vj.x, vi.x),
                                      f32_sub(point.y, vi.y)),
                              f32_sub(vj.y, vi.y)),
                      vi.x))

RECURSIVE is_point_inside_loop(_, _, _, _, _)
is_point_inside_loop(vertices, point, i, j, is_inside) ==
    IF i > Len(vertices) THEN is_inside
    ELSE is_point_inside_loop(vertices, point, i + 1, i,
             IF edge_crosses(vertices[i], vertices[j], point)
             THEN ~is_inside ELSE is_inside)

\* The hit test as it would be with j starting at the first vertex, which
\* leaves out the closing edge from the last vertex to the first.
is_point_inside_open(vertices, point) ==
    is_point_inside_loop(vertices, point, 1, 1, FALSE)

is_point_inside(vertices, point) ==
    is_point_inside_loop(vertices, point, 1, Len(vertices), FALSE)

(***************************************************************************)
(* Option<usize>: None is the empty sequence, Some(i) the sequence <<i>>.  *)
(* Indices are zero-based as in the source; At(ts, i) is ts[i].            *)
(***************************************************************************)
None == <<>>
Some(i) == <<i>>
At(ts, i) == ts[i + 1]

(***************************************************************************)
(* TerritoryData::to_territory and GameState::new.                         *)
(***************************************************************************)
to_territory(data) ==
    [name     |-> data.name,
     vertices |-> [i \in 1..Len(data.vertices) |->
                      vec2(data.vertices[i][1], data.vertices[i][2])],
     owner    |-> data.owner,
     armies   |-> data.armies,
     selected |-> data.selected]

GameState_new(file) ==
    [territories        |-> [i \in 1..Len(file) |-> to_territory(file[i])],
     selected_territory |-> None]

(***************************************************************************)
(* GameState::handle_input.                                                *)
(***************************************************************************)
\* The for loop over territories.iter_mut().enumerate(): i is zero-based.
\* The loop as it would be if it set the flag of every hit on the way.
RECURSIVE scan_loop_marking(_, _, _, _)
scan_loop_marking(ts, mouse_position, i, newly_selected_territory) ==
    IF i >= Len(ts)
    THEN [territories |-> ts,
          newly_selected_territory |-> newly_selected_territory]
    ELSE IF is_point_inside(At(ts, i).vertices, mouse_position)
         THEN scan_loop_marking([ts EXCEPT ![i + 1].selected = TRUE],
                                mouse_position, i + 1, Some(i))
         ELSE scan_loop_marking(ts, mouse_position, i + 1,
                                newly_selected_territory)

RECURSIVE scan_loop(_, _, _, _)
scan_loop(ts, mouse_position, i, newly_selected_territory) ==
    IF i >= Len(ts)
    THEN [territories |-> ts,
          newly_selected_territory |-> newly_selected_territory]
    ELSE scan_loop(ts, mouse_position, i + 1,
             IF is_point_inside(At(ts, i).vertices, mouse_position)
             THEN Some(i) ELSE newly_selected_territory)

\* The deselection as it would be if it were left out.
deselect_previous_skipped(ts, selected) == ts

\* The deselection as it would be if it cleared every flag.
deselect_all(ts, selected) ==
    [i \in 1..Len(ts) |-> [ts[i] EXCEPT !.selected = FALSE]]

\* if let Some(selected) = self.selected_territory { ... }
deselect_previous(ts, selected) ==
    IF selected # None
    THEN [ts EXCEPT ![selected[1] + 1].selected = FALSE]
    ELSE ts

\* The selection as it would be if it rebuilt the record with no armies.
select_new_resetting(ts, selected, newly) ==
    IF newly # None
    THEN [territories        |-> [ts EXCEPT ![newly[1] + 1] =
                                     [@ EXCEPT !.selected = TRUE, !.armies = 0]],
          selected_territory |-> Some(newly[1])]
    ELSE [territories        |-> ts,
          selected_territory |-> selected]

\* The selection as it would be if it recorded the one-based position.
select_new_one_based(ts, selected, newly) ==
    IF newly # None
    THEN [territories        |-> [ts EXCEPT ![newly[1] + 1].selected = TRUE],
          selected_territory |-> Some(newly[1] + 1)]
    ELSE [territories        |-> ts,
          selected_territory |-> selected]

\* if let Some(i) = newly_selected_territory { ... }
select_new(ts, selected, newly) ==
    IF newly # None
    THEN [territories        |-> [ts EXCEPT ![newly[1] + 1].selected = TRUE],
          selected_territory |-> Some(newly[1])]
    ELSE [territories        |-> ts,
          selected_territory |-> selected]

\* The handler as it would be if it selected the match before it cleared
\* the flag of the previous selection.
handle_input_result_select_first(ts, selected, m) ==
    IF m.pressed
    THEN LET scan == scan_loop(ts, m.position, 0, None)
             sel  == select_new(scan.territories, selected,
                                scan.newly_selected_territory)
         IN  [territories        |-> deselect_previous(sel.territories, selected),
              selected_territory |-> sel.selected_territory]
    ELSE [territories |-> ts, selected_territory |-> selected]

handle_input_result(ts, selected, m) ==
    IF m.pressed
    THEN LET scan == scan_loop(ts, m.position, 0, None)
         IN  select_new(deselect_previous(scan.territories, selected),
                        selected, scan.newly_selected_territory)
    ELSE [territories |-> ts, selected_territory |-> selected]

(***************************************************************************)
(* Territory::draw and GameState::draw_map: what a render pass puts on     *)
(* the screen, as the sequence of draw_line and draw_text calls.           *)
(***************************************************************************)
\* The colour as it would be if the owner were matched before the flag.
draw_color_owner_first(territory) ==
    IF territory.owner = 0 THEN "BLUE"
    ELSE IF territory.owner = 1 THEN "GREEN"
    ELSE IF territory.selected THEN "YELLOW"
    ELSE "GRAY"

draw_color(territory) ==
    IF territory.selected THEN "YELLOW"
    ELSE IF territory.owner = 0 THEN "BLUE"
    ELSE IF territory.owner = 1 THEN "GREEN"
    ELSE "GRAY"

draw(territory) ==
    LET n == Len(territory.vertices)
    IN  [i \in 1..n |->
            [start |-> territory.vertices[i],
             end   |-> territory.vertices[(i % n) + 1],
             thickness |-> 2,
             color |-> draw_color(territory)]]

RECURSIVE draw_all(_, _)
draw_all(ts, i) ==
    IF i >= Len(ts) THEN <<>> ELSE draw(At(ts, i)) \o draw_all(ts, i + 1)

draw_overlay(ts, selected) ==
    IF selected # None
    THEN << [text |-> <<"Selected: ", At(ts, selected[1]).name>>,
             x |-> 10, y |-> 20, font_size |-> 30, color |-> "DARKGRAY"],
            [text |-> <<"Armies: ", At(ts, selected[1]).armies>>,
             x |-> 10, y |-> 50, font_size |-> 30, color |-> "DARKGRAY"] >>
    ELSE <<>>

Blank == [lines |-> <<>>, text |-> <<>>]

(***************************************************************************)
(* The frame loop of main: one action per call of the loop body.           *)
(***************************************************************************)
clear_background ==
    /\ pc = "clear_background"
    /\ screen' = Blank
    /\ pc' = "handle_input"
    /\ UNCHANGED <<territories, selected_territory, mouse>>

handle_input ==
    /\ pc = "handle_input"
    /\ LET r == handle_input_result(territories, selected_territory, mouse)
       IN  /\ territories' = r.territories
           /\ selected_territory' = r.selected_territory
    /\ pc' = "draw_map"
    /\ UNCHANGED <<mouse, screen>>

draw_map ==
    /\ pc = "draw_map"
    /\ screen' = [lines |-> draw_all(territories, 0),
                  text  |-> draw_overlay(territories, selected_territory)]
    /\ pc' = "next_frame"
    /\ UNCHANGED <<territories, selected_territory, mouse>>

\* let mut j = self.vertices.len() - 1 on a territory without vertices: the
\* subtraction overflows usize.  A build with overflow checks panics there,
\* at the first such territory of the scan and before any assignment; a
\* build without them wraps, the loop runs no iteration and the hit test
\* is false, which is what is_point_inside above gives and handle_input
\* takes.
handle_input_panic ==
    /\ pc = "handle_input"
    /\ mouse.pressed
    /\ \E i \in 1..Len(territories) : Len(territories[i].vertices) = 0
    /\ pc' = "panicked"
    /\ UNCHANGED <<territories, selected_territory, mouse, screen>>

\* next_frame().await: the frame is presented and the input of the next
\* tick is polled; inputs is the set of mouse states the tick may see.
next_frame(inputs) ==
    /\ pc = "next_frame"
    /\ mouse' \in inputs
    /\ pc' = "clear_background"
    /\ UNCHANGED <<territories, selected_territory, screen>>

(***************************************************************************)
(* The map: resources/territories.json as a sequence of TerritoryData.     *)
(***************************************************************************)
Polygon(points) == [i \in 1..Len(points) |-> <<F32(points[i][1]), F32(points[i][2])>>]

\* Two overlapping squares and a triangle apart from both.
ShapeA == Polygon(<< <<0, 0>>, <<4, 0>>, <<4, 4>>, <<0, 4>> >>)
ShapeB == Polygon(<< <<2, 2>>, <<6, 2>>, <<6, 6>>, <<2, 6>> >>)
ShapeC == Polygon(<< <<8, 0>>, <<12, 0>>, <<8, 4>> >>)

Catalogue ==
    { [name |-> "A", vertices |-> ShapeA, owner |-> 0, armies |-> 5, selected |-> s] : s \in BOOLEAN }
    \cup
    { [name |-> "B", vertices |-> ShapeB, owner |-> 1, armies |-> 3, selected |-> s] : s \in BOOLEAN }
    \cup
    { [name |-> "C", vertices |-> ShapeC, owner |-> 2, armies |-> -1, selected |-> s] : s \in BOOLEAN }

SeqsUpTo(S, n) == UNION { [1..k -> S] : k \in 0..n }

load_territories_from_json == SeqsUpTo(Catalogue, MaxTerritories)

\* In A only, in A and B, in B only, in C, in no shape.
ClickPoints ==
    { vec2(F32(1), F32(1)), vec2(F32(3), F32(3)), vec2(F32(5), F32(5)),
      vec2(F32(9), F32(1)), vec2(F32(7), F32(7)) }

MouseInputs(points) == [pressed : BOOLEAN, position : points]

\* The state when main enters its loop: GameState::new has run on one of
\* the files, nothing is drawn yet, and the first tick sees one of the inputs.
InitWith(files, inputs) ==
    /\ \E file \in files :
          LET g == GameState_new(file)
          IN  /\ territories = g.territories
              /\ selected_territory = g.selected_territory
    /\ mouse \in inputs
    /\ screen = Blank
    /\ pc = "clear_background"

Init == InitWith(load_territories_from_json, MouseInputs(ClickPoints))

Next ==
    \/ clear_background
    \/ handle_input
    \/ draw_map
    \/ next_frame(MouseInputs(ClickPoints))

Spec == Init /\ [][Next]_vars

\* The same program started on a file whose records all have
\* selected = false, as a map file ordinarily has.
UnselectedFiles ==
    { file \in load_territories_from_json :
         \A i \in 1..Len(file) : ~file[i].selected }

InitUnselected == InitWith(UnselectedFiles, MouseInputs(ClickPoints))

SpecUnselected == InitUnselected /\ [][Next]_vars

(***************************************************************************)
(* Vocabulary of the properties.                                           *)
(***************************************************************************)
Indices == 0..(Len(territories) - 1)
SelectedSet == { i \in Indices : At(territories, i).selected }
Matches == { i \in Indices : is_point_inside(At(territories, i).vertices, mouse.position) }
Click == pc = "handle_input" /\ mouse.pressed
MaxOf(S) == CHOOSE m \in S : \A x \in S : x <= m

\* C1: in every reachable state selected_territory is None, or Some(i) with
\* i in range, territories[i].selected true and every other flag false.
C1_SelectedIndexInSync ==
    \/ selected_territory = None
    \/ /\ selected_territory[1] \in Indices
       /\ \A i \in Indices :
             At(territories, i).selected <=> (i = selected_territory[1])

\* C2: in every reachable state, from any loaded records on, at most one
\* territory has selected = true.
C2_AtMostOneSelected == Cardinality(SelectedSet) <= 1

\* C3: a click on a point no territory contains, made while some territory
\* is selected, leaves no territory selected and selected_territory = None.
C3_EmptyClickDeselects ==
    [][(Click /\ SelectedSet # {} /\ Matches = {})
          => (\A i \in Indices : ~At(territories', i).selected)
             /\ selected_territory' = None]_vars

\* C4: a click on a point contained in exactly one territory j leaves j
\* selected, every other territory unselected and selected_territory = j.
C4_ClickSelectsTheMatch ==
    [][\A j \in Indices :
          (Click /\ Matches = {j})
             => /\ \A i \in Indices : At(territories', i).selected <=> (i = j)
                /\ selected_territory' = Some(j)]_vars

\* C5: a click on a point contained in several territories selects the one
\* of greatest index, and it is the only match left with selected = true.
C5_LastMatchWins ==
    [][(Click /\ Cardinality(Matches) >= 2)
          => /\ selected_territory' = Some(MaxOf(Matches))
             /\ \A i \in Matches :
                   At(territories', i).selected <=> (i = MaxOf(Matches))]_vars

\* C6: a render pass runs only after the handle_input of its tick and never
\* sees two selected territories, nor a selected_territory whose territory
\* has selected = false.
C6_RenderSeesConsistentSelection ==
    pc = "draw_map"
       => /\ Cardinality(SelectedSet) <= 1
          /\ selected_territory # None
                => At(territories, selected_territory[1]).selected

\* C10: the scan of handle_input, which is every evaluation of
\* is_point_inside, changes no territory and not selected_territory: the
\* collection leaves the loop as it entered it, the rest of the handler
\* works on that unchanged collection, and a click that hits nothing while
\* nothing is selected changes nothing at all.
C10_HitTestHasNoSideEffect ==
    [][Click =>
         LET scan == scan_loop(territories, mouse.position, 0, None)
             rest == select_new(deselect_previous(territories, selected_territory),
                                selected_territory, scan.newly_selected_territory)
         IN  /\ scan.territories = territories
             /\ territories' = rest.territories
             /\ selected_territory' = rest.selected_territory
             /\ (Matches = {} /\ selected_territory = None)
                   => UNCHANGED <<territories, selected_territory>>]_vars

\* A click has been handled in which the hit test held for one territory
\* and failed for another.
C10_Witness ==
    /\ pc = "draw_map"
    /\ mouse.pressed
    /\ Matches # {}
    /\ Matches # Indices

(***************************************************************************)
(* The hit test on its own: a map of one polygon, clicked at every point.  *)
(***************************************************************************)
\* Exact geometry of polygons with integer coordinates (an integer n is the
\* f32 <<n, 0>>), used to say which polygons and points a property is about.
PX(v) == v.x[1]
PY(v) == v.y[1]
ToVec2(polygon) == [i \in 1..Len(polygon) |-> vec2(polygon[i][1], polygon[i][2])]
NextIdx(vs, i) == (i % Len(vs)) + 1

Orient(a, b, c) ==
    (PX(b) - PX(a)) * (PY(c) - PY(a)) - (PY(b) - PY(a)) * (PX(c) - PX(a))

Between(a, b, c) == (a <= c /\ c <= b) \/ (b <= c /\ c <= a)

\* c is a point of the closed segment from a to b.
OnSegment(a, b, c) ==
    /\ Orient(a, b, c) = 0
    /\ Between(PX(a), PX(b), PX(c))
    /\ Between(PY(a), PY(b), PY(c))

Opposite(m, n) == (m > 0 /\ n < 0) \/ (m < 0 /\ n > 0)

SegmentsMeet(a, b, c, d) ==
    \/ Opposite(Orient(a, b, c), Orient(a, b, d))
          /\ Opposite(Orient(c, d, a), Orient(c, d, b))
    \/ OnSegment(a, b, c) \/ OnSegment(a, b, d)
    \/ OnSegment(c, d, a) \/ OnSegment(c, d, b)

\* A simple polygon: distinct vertices, a proper corner at every vertex,
\* and no two edges meeting except neighbours at their shared vertex.
IsSimple(vs) ==
    LET n == Len(vs)
    IN  /\ n >= 3
        /\ \A i, j \in 1..n : i # j => vs[i] # vs[j]
        /\ \A i \in 1..n : Orient(vs[i], vs[NextIdx(vs, i)],
                                  vs[NextIdx(vs, NextIdx(vs, i))]) # 0
        /\ \A i, j \in 1..n :
              (i # j /\ NextIdx(vs, i) # j /\ NextIdx(vs, j) # i)
                 => ~SegmentsMeet(vs[i], vs[NextIdx(vs, i)],
                                  vs[j], vs[NextIdx(vs, j)])

Turn(vs, i) == Orient(vs[i], vs[NextIdx(vs, i)], vs[NextIdx(vs, NextIdx(vs, i))])

IsConvex(vs) ==
    \/ \A i \in 1..Len(vs) : Turn(vs, i) > 0
    \/ \A i \in 1..Len(vs) : Turn(vs, i) < 0

OnBoundary(vs, p) == \E i \in 1..Len(vs) : OnSegment(vs[i], vs[NextIdx(vs, i)], p)

RECURSIVE SumOver(_, _, _)
SumOver(vs, i, axis) ==
    IF i > Len(vs) THEN 0
    ELSE (IF axis = "x" THEN PX(vs[i]) ELSE PY(vs[i])) + SumOver(vs, i + 1, axis)

HasIntegerCentroid(vs) ==
    SumOver(vs, 1, "x") % Len(vs) = 0 /\ SumOver(vs, 1, "y") % Len(vs) = 0

\* The mean of the vertices.
Centroid(vs) ==
    vec2(F32(SumOver(vs, 1, "x") \div Len(vs)), F32(SumOver(vs, 1, "y") \div Len(vs)))

XsOf(vs) == { PX(vs[i]) : i \in 1..Len(vs) }
YsOf(vs) == { PY(vs[i]) : i \in 1..Len(vs) }
MinOf(S) == CHOOSE m \in S : \A x \in S : m <= x

InsideBox(vs, p) ==
    /\ MinOf(XsOf(vs)) < PX(p) /\ PX(p) < MaxOf(XsOf(vs))
    /\ MinOf(YsOf(vs)) < PY(p) /\ PY(p) < MaxOf(YsOf(vs))

OutsideBox(vs, p) ==
    \/ PX(p) < MinOf(XsOf(vs)) \/ PX(p) > MaxOf(XsOf(vs))
    \/ PY(p) < MinOf(YsOf(vs)) \/ PY(p) > MaxOf(YsOf(vs))

OnePolygonFiles(polygons) ==
    { << [name |-> "P", vertices |-> p, owner |-> 0, armies |-> 1,
          selected |-> FALSE] >> : p \in polygons }

Presses(points) == [pressed : {TRUE}, position : points]

HitCoords == {0, MaxCoord \div 2 + 1, MaxCoord}
HitVertices == { <<F32(x), F32(y)>> : x \in HitCoords, y \in HitCoords }
HitPolygons ==
    { p \in UNION { [1..n -> HitVertices] : n \in 3..MaxVertices } :
         IsSimple(ToVec2(p)) }
HitPoints == { vec2(F32(x), F32(y)) : x \in HitCoords, y \in HitCoords }

InitHit == InitWith(OnePolygonFiles(HitPolygons), Presses(HitPoints))

NextHit ==
    \/ clear_background
    \/ handle_input
    \/ draw_map
    \/ next_frame(Presses(HitPoints))

SpecHit == InitHit /\ [][NextHit]_vars

\* The crossing test of one edge as the specification words it: the
\* interpolation vj.x + (point.y - vj.y) / (vi.y - vj.y) * (vi.x - vj.x),
\* evaluated in f32 in the order written.
crossing_x(vi, vj, point) ==
    f32_add(vj.x,
            f32_mul(f32_div(f32_sub(point.y, vj.y), f32_sub(vi.y, vj.y)),
                    f32_sub(vi.x, vj.x)))

crosses_ray(vi, vj, point) ==
    /\ f32_gt(vi.y, point.y) # f32_gt(vj.y, point.y)
    /\ f32_gt(crossing_x(vi, vj, point), point.x)

Prev(vertices, i) == IF i = 1 THEN Len(vertices) ELSE i - 1

CrossingEdges(vertices, point) ==
    { i \in 1..Len(vertices) :
         crosses_ray(vertices[i], vertices[Prev(vertices, i)], point) }

contains(vertices, point) == Cardinality(CrossingEdges(vertices, point)) % 2 = 1

\* The point lies on the line through an edge whose ends are on the two
\* sides of its y (exact integer arithmetic on integer coordinates).
OnStraddlingEdge(vertices, point) ==
    \E i \in 1..Len(vertices) :
       LET vi == vertices[i]
           vj == vertices[Prev(vertices, i)]
       IN  /\ f32_gt(vi.y, point.y) # f32_gt(vj.y, point.y)
           /\ (vj.x[1] - vi.x[1]) * (point.y[1] - vi.y[1])
                 = (point.x[1] - vi.x[1]) * (vj.y[1] - vi.y[1])

Handled == pc = "draw_map" /\ mouse.pressed

\* C7 as claimed: for every polygon and point, is_point_inside is the
\* parity of the edges that cross the ray by the specification's formula.
C7_AgreesWithSpecFormula ==
    Handled =>
       \A i \in Indices :
          is_point_inside(At(territories, i).vertices, mouse.position)
             = contains(At(territories, i).vertices, mouse.position)

\* C7 as amended: is_point_inside is that parity for every point that is
\* not on the line of an edge straddling its y; on such an edge the two
\* interpolations round differently in f32 and may disagree.
C7_AgreesOffTheEdges ==
    Handled =>
       \A i \in Indices :
          ~OnStraddlingEdge(At(territories, i).vertices, mouse.position)
             => is_point_inside(At(territories, i).vertices, mouse.position)
                   = contains(At(territories, i).vertices, mouse.position)

\* A click strictly inside a polygon, off all its edges, has selected it.
C7_Witness ==
    /\ Handled
    /\ Len(territories) = 1
    /\ ~OnStraddlingEdge(territories[1].vertices, mouse.position)
    /\ contains(territories[1].vertices, mouse.position)
    /\ territories[1].selected
    /\ selected_territory = Some(0)

(***************************************************************************)
(* Axis-aligned rectangles, listed from each corner in both directions,    *)
(* and the square of side 10 with the points (5,5) and (15,5).             *)
(***************************************************************************)
RectCorners(x0, y0, x1, y1) == << <<x0, y0>>, <<x1, y0>>, <<x1, y1>>, <<x0, y1>> >>

Relisted(corners, first, step) ==
    Polygon([i \in 1..4 |-> corners[((first + step * (i - 1)) % 4) + 1]])

RectPolygons ==
    { Relisted(RectCorners(x0, y0, x1, y1), first, step) :
         x0 \in 0..MaxRect, y0 \in 0..MaxRect, x1 \in 0..MaxRect,
         y1 \in 0..MaxRect, first \in 0..3, step \in {1, 3} }

Square10 == Polygon(RectCorners(0, 0, 10, 10))

IsRect(p) == p[1][1] # p[3][1] /\ p[1][2] # p[3][2]

RectPoints ==
    { vec2(F32(x), F32(y)) : x \in -1..(MaxRect + 1), y \in -1..(MaxRect + 1) }
    \cup { vec2(F32(5), F32(5)), vec2(F32(15), F32(5)) }

InitRect ==
    InitWith(OnePolygonFiles({ p \in RectPolygons : IsRect(p) } \cup {Square10}),
             Presses(RectPoints))

NextRect ==
    \/ clear_background
    \/ handle_input
    \/ draw_map
    \/ next_frame(Presses(RectPoints))

SpecRect == InitRect /\ [][NextRect]_vars

\* C8: for an axis-aligned rectangle with integer corners, the square of
\* side 10 among them, is_point_inside holds at every point strictly inside
\* and fails at every point strictly outside.
C8_RectangleInsideOutside ==
    Handled =>
       \A i \in Indices :
          LET vs == At(territories, i).vertices
          IN  /\ InsideBox(vs, mouse.position) => is_point_inside(vs, mouse.position)
              /\ OutsideBox(vs, mouse.position) => ~is_point_inside(vs, mouse.position)

\* The click at (5,5) has selected the square of side 10.
C8_Witness ==
    /\ Handled
    /\ Len(territories) = 1
    /\ territories[1].vertices = ToVec2(Square10)
    /\ mouse.position = vec2(F32(5), F32(5))
    /\ territories[1].selected
    /\ selected_territory = Some(0)

(***************************************************************************)
(* Simple polygons of 3 and 4 vertices on a grid, each listed from its     *)
(* least vertex, whose vertex mean has integer coordinates and is not on   *)
(* the boundary (where the classification is implementation-defined).      *)
(***************************************************************************)
GridVertices == { <<F32(x), F32(y)>> : x \in 0..GridW, y \in 0..GridH }

LeastFirst(vs) ==
    \A i \in 2..Len(vs) :
       PX(vs[1]) < PX(vs[i]) \/ (PX(vs[1]) = PX(vs[i]) /\ PY(vs[1]) < PY(vs[i]))

CentroidPolygons ==
    { p \in [1..3 -> GridVertices] \cup [1..4 -> GridVertices] :
         LET vs == ToVec2(p)
         IN  /\ LeastFirst(vs)
             /\ HasIntegerCentroid(vs)
             /\ IsSimple(vs)
             /\ ~OnBoundary(vs, Centroid(vs)) }

\* The grid points off its rim, and four points far outside the grid.
CentroidPoints ==
    { vec2(F32(x), F32(y)) : x \in 1..(GridW - 1), y \in 1..(GridH - 1) }
    \cup { vec2(F32(-GridW - 1), F32(1)), vec2(F32(2 * GridW + 1), F32(1)),
           vec2(F32(1), F32(-GridH - 1)), vec2(F32(1), F32(2 * GridH + 1)) }

InitCentroid == InitWith(OnePolygonFiles(CentroidPolygons), Presses(CentroidPoints))

NextCentroid ==
    \/ clear_background
    \/ handle_input
    \/ draw_map
    \/ next_frame(Presses(CentroidPoints))

SpecCentroid == InitCentroid /\ [][NextCentroid]_vars

\* C9 as claimed: for every simple polygon, convex or not, is_point_inside
\* holds at the centroid and fails at a point outside the bounding box.
C9_CentroidInsideEverySimplePolygon ==
    Handled =>
       \A i \in Indices :
          LET vs == At(territories, i).vertices
          IN  /\ mouse.position = Centroid(vs) => is_point_inside(vs, mouse.position)
              /\ OutsideBox(vs, mouse.position) => ~is_point_inside(vs, mouse.position)

\* C9 as amended: is_point_inside holds at the centroid of every convex
\* polygon and fails outside the bounding box of every polygon; the
\* centroid of a non-convex polygon can lie outside it.
C9_CentroidInsideConvexPolygon ==
    Handled =>
       \A i \in Indices :
          LET vs == At(territories, i).vertices
          IN  /\ (IsConvex(vs) /\ mouse.position = Centroid(vs))
                    => is_point_inside(vs, mouse.position)
              /\ OutsideBox(vs, mouse.position) => ~is_point_inside(vs, mouse.position)

\* The click at the centroid of a convex quadrilateral has selected it.
C9_Witness ==
    /\ Handled
    /\ Len(territories) = 1
    /\ Len(territories[1].vertices) = 4
    /\ IsConvex(territories[1].vertices)
    /\ mouse.position = Centroid(territories[1].vertices)
    /\ territories[1].selected
    /\ selected_territory = Some(0)

(***************************************************************************)
(* The display colour: maps of up to two territories of every owner in     *)
(* 0..MaxOwner, loaded selected or not.                                    *)
(***************************************************************************)
ColourCatalogue ==
    { [name |-> "A", vertices |-> ShapeA, owner |-> o, armies |-> 5, selected |-> s] :
         o \in 0..MaxOwner, s \in BOOLEAN }
    \cup
    { [name |-> "C", vertices |-> ShapeC, owner |-> o, armies |-> -1, selected |-> s] :
         o \in 0..MaxOwner, s \in BOOLEAN }

InitColour == InitWith(SeqsUpTo(ColourCatalogue, 2), MouseInputs(ClickPoints))

SpecColour == InitColour /\ [][Next]_vars

\* The colour table of the specification.
DisplayColour(owner, selected) ==
    IF selected THEN "YELLOW"
    ELSE CASE owner = 0 -> "BLUE"
           [] owner = 1 -> "GREEN"
           [] OTHER     -> "GRAY"

\* The number of draw_line calls made before those of territory i.
RECURSIVE LineOffset(_, _)
LineOffset(ts, i) ==
    IF i = 0 THEN 0 ELSE LineOffset(ts, i - 1) + Len(At(ts, i - 1).vertices)

\* The colours of the lines a render pass drew for territory i.
DrawnColours(i) ==
    { screen.lines[LineOffset(territories, i) + k].color :
         k \in 1..Len(At(territories, i).vertices) }

Rendered == pc = "next_frame"

\* C11: every line of a territory is drawn in the colour the table gives
\* for its owner and selected fields: the highlight colour when selected,
\* else colour A for owner 0, colour B for owner 1, the fallback otherwise.
C11_ColourFromOwnerAndSelected ==
    Rendered =>
       \A i \in Indices :
          DrawnColours(i) = { DisplayColour(At(territories, i).owner,
                                            At(territories, i).selected) }

\* A render pass has drawn a selected territory of owner 0 in the highlight
\* colour next to an unselected territory of another owner in the fallback.
C11_Witness ==
    /\ Rendered
    /\ \E i, j \in Indices :
          /\ At(territories, i).selected /\ At(territories, i).owner = 0
          /\ DrawnColours(i) = {"YELLOW"}
          /\ ~At(territories, j).selected /\ At(territories, j).owner > 1
          /\ DrawnColours(j) = {"GRAY"}

(***************************************************************************)
(* A map file with records of fewer than 3 vertices: the file is parsed    *)
(* into Vec<[f32; 2]> of any length.                                       *)
(***************************************************************************)
ShortCatalogue ==
    { [name |-> "A", vertices |-> ShapeA, owner |-> 0, armies |-> 5, selected |-> FALSE],
      [name |-> "Z", vertices |-> Polygon(<< >>), owner |-> 0, armies |-> 1, selected |-> FALSE],
      [name |-> "P", vertices |-> Polygon(<< <<1, 1>> >>), owner |-> 1, armies |-> 1, selected |-> FALSE],
      [name |-> "S", vertices |-> Polygon(<< <<0, 0>>, <<4, 4>> >>), owner |-> 2, armies |-> 1, selected |-> FALSE] }

InitShort == InitWith(SeqsUpTo(ShortCatalogue, 2), MouseInputs(ClickPoints))

NextShort ==
    \/ clear_background
    \/ handle_input
    \/ handle_input_panic
    \/ draw_map
    \/ next_frame(MouseInputs(ClickPoints))

SpecShort == InitShort /\ [][NextShort]_vars

\* C12: no territory of the collection has fewer than 3 vertices, so the
\* hit test of a click never runs on such a polygon.
C12_NoShortPolygonLoaded ==
    \A i \in Indices : Len(At(territories, i).vertices) >= 3

(***************************************************************************)
(* The render pass and the frame of handle_input.                          *)
(***************************************************************************)
OverlayOf(i) ==
    /\ Len(screen.text) = 2
    /\ screen.text[1].text = <<"Selected: ", At(territories, i).name>>
    /\ screen.text[2].text = <<"Armies: ", At(territories, i).armies>>

\* C13: a render pass draws the overlay exactly when a territory is
\* selected, and the overlay then names a territory that the same pass drew
\* in the highlight colour, with its army count.
C13_OverlayMatchesHighlight ==
    Rendered =>
       /\ (screen.text # <<>>) <=> (SelectedSet # {})
       /\ (screen.text # <<>>)
             => \E i \in Indices : DrawnColours(i) = {"YELLOW"} /\ OverlayOf(i)

\* The match a click resolves to, if any.
Resolved == IF Matches = {} THEN None ELSE Some(MaxOf(Matches))

\* C14: a click that resolves to the territory that is already selected
\* leaves every selected flag and selected_territory as they were.
C14_ReselectIsNoOp ==
    [][(/\ Click
        /\ selected_territory # None
        /\ At(territories, selected_territory[1]).selected
        /\ Resolved = selected_territory)
          => UNCHANGED <<territories, selected_territory>>]_vars

\* A click on the selected territory is about to be handled.
C14_Witness ==
    /\ Click
    /\ selected_territory # None
    /\ At(territories, selected_territory[1]).selected
    /\ Resolved = selected_territory

\* C15: after a click, the territory selected_territory referred to before
\* it has selected = false, unless the click resolves to that territory;
\* so when the click matches another territory and when it matches none.
C15_PreviousIsDeselected ==
    [][(Click /\ selected_territory # None /\ Resolved # selected_territory)
          => ~At(territories', selected_territory[1]).selected]_vars

\* A click on empty space has been handled and the territory that was
\* selected before it is not selected any more.
C15_Witness ==
    /\ Handled
    /\ Matches = {}
    /\ selected_territory # None
    /\ ~At(territories, selected_territory[1]).selected

Immutable(t) == [name |-> t.name, vertices |-> t.vertices,
                 owner |-> t.owner, armies |-> t.armies]

\* C16: no step changes the number of territories nor the name, vertices,
\* owner or armies of any of them.
C16_LoadedDataNeverChanges ==
    [][/\ Len(territories') = Len(territories)
       /\ \A i \in Indices :
             Immutable(At(territories', i)) = Immutable(At(territories, i))]_vars

\* A click has selected a territory and a render pass has drawn it.
C16_Witness ==
    /\ Rendered
    /\ mouse.pressed
    /\ selected_territory # None
    /\ At(territories, selected_territory[1]).selected
    /\ screen.text # <<>>

\* C17: selected_territory is None or Some(i) with i < territories.len().
C17_SelectedIndexInRange ==
    selected_territory = None \/ selected_territory[1] \in Indices

\* The last territory of a map of several is selected and about to be drawn.
C17_Witness ==
    /\ pc = "draw_map"
    /\ Len(territories) >= 2
    /\ selected_territory = Some(Len(territories) - 1)

\* C18: a click changes the selected flag of no territory other than the
\* one selected_territory referred to and the one it resolves to.
C18_OnlyTwoFlagsChange ==
    [][Click =>
         \A i \in Indices :
            (Some(i) # selected_territory /\ Some(i) # Resolved)
               => At(territories', i).selected = At(territories, i).selected]_vars

\* A click has moved the selection while a third territory, loaded
\* selected, kept its flag.
C18_Witness ==
    /\ Handled
    /\ Resolved # None
    /\ selected_territory = Resolved
    /\ \E i \in Indices : Some(i) # selected_territory /\ At(territories, i).selected
    /\ \E i \in Indices : Some(i) # selected_territory /\ ~At(territories, i).selected
====
